---- MODULE Spec2Model ----
(***************************************************************************)
(* Model of pkg/hpa/client.go of tortoise: the client that keeps the       *)
(* HorizontalPodAutoscaler of a Tortoise in step with the Tortoise's       *)
(* recommendations.                                                        *)
(*                                                                         *)
(* The stored HorizontalPodAutoscaler is the variable hpa.  One action     *)
(* models one whole call: of UpdateHPAFromTortoiseRecommendation, from its *)
(* Get to its Update, of CreateHPAOnTortoise, from the object it builds to *)
(* its Create, of updateHPATargetValue on an HPA object, or of             *)
(* getReplicasRecommendation on a list of slots.                           *)
(***************************************************************************)
EXTENDS Integers, Sequences, FiniteSets, TLC

VARIABLES
    hpa,                      \* the HorizontalPodAutoscaler held by the API server
    phase,                    \* tortoise.Status.TortoisePhase
    recommendations,          \* tortoise.Status.Recommendations.Horizontal
    now,                      \* the time.Time handed to the next call
    replicaReductionFactor,   \* Client.replicaReductionFactor
    last,                     \* the call just made: its inputs and what it returned
    exists                    \* the API server holds an HPA of the tortoise's HPA name

vars == <<hpa, phase, recommendations, now, replicaReductionFactor, last, exists>>

----------------------------------------------------------------------------
(* Bounds of the model. *)

\* The largest replica count the model draws.
MaxReplicas == 10

\* The longest hpa.Spec.Metrics the model draws.
MaxMetrics == 2

\* The longest list of slots getReplicasRecommendation is tried on by itself.
MaxSlots == 2

----------------------------------------------------------------------------
(* Values. *)

\* A nil *int32 / *resource.Quantity.
NilValue == 0 - 1

TortoisePhaseWorking == "Working"
TortoisePhaseEmergency == "Emergency"
TortoisePhaseBackToNormal == "BackToNormal"
TortoisePhaseInitializing == "Initializing"

TortoisePhases ==
    {TortoisePhaseWorking, TortoisePhaseEmergency, TortoisePhaseBackToNormal,
     TortoisePhaseInitializing}

ResourceCPU == "cpu"
ResourceMemory == "memory"
ResourceEphemeralStorage == "ephemeral-storage"

ContainerResourceMetricSourceType == "ContainerResource"
ExternalMetricSourceType == "External"
ResourceMetricSourceType == "Resource"

HPAContainerBasedCPUExternalMetricNamePrefixAnnotation == "cpu-external-metric-prefix"
HPAContainerBasedMemoryExternalMetricNamePrefixAnnotation == "memory-external-metric-prefix"

\* The prefixes CreateHPAOnTortoise writes.  A string is modelled as the
\* sequence of its parts, so that "+" is \o and the empty string is <<>>.
CPUPrefix == <<"datadogmetric@ns:dep-cpu-">>
MemoryPrefix == <<"datadogmetric@ns:dep-memory-">>

Monday == "Monday"
Tuesday == "Tuesday"

AutoscalingTypeHorizontal == "Horizontal"
AutoscalingTypeVertical == "Vertical"

\* *tortoise.Spec.TargetRefs.HorizontalPodAutoscalerName.
HorizontalPodAutoscalerName == "dep-hpa"

\* The largest int32.
MaxInt32 == 2147483647

----------------------------------------------------------------------------
(* time.Time, ReplicasRecommendation and the lookup. *)

Time(weekday, hour) == [weekday |-> weekday, hour |-> hour]

ReplicasRecommendation(weekday, from, to, value) ==
    [WeekDay |-> weekday, From |-> from, To |-> to, Value |-> value]

\* A slip: the hour To is taken into the range.
SlotMatchesInclusive(r, t) ==
    t.hour <= r.To /\ t.hour >= r.From /\ t.weekday = r.WeekDay

\* The condition of the scan (client.go:182).
SlotMatches(r, t) ==
    t.hour < r.To /\ t.hour >= r.From /\ t.weekday = r.WeekDay

RECURSIVE ScanFrom(_, _, _)
ScanFrom(recs, t, i) ==
    IF i > Len(recs) THEN [err |-> TRUE, value |-> 0]
    ELSE IF SlotMatches(recs[i], t) THEN [err |-> FALSE, value |-> recs[i].Value]
    ELSE ScanFrom(recs, t, i + 1)

\* getReplicasRecommendation: the first matching slot's value, or an error.
getReplicasRecommendation(recs, t) == ScanFrom(recs, t, 1)

----------------------------------------------------------------------------
(* The metrics of an HPA. *)

ContainerResourceMetricSource(present, container, name, averageUtilization) ==
    [present |-> present, Container |-> container, Name |-> name,
     AverageUtilization |-> averageUtilization]

ExternalMetricSource(present, metricName, value) ==
    [present |-> present, MetricName |-> metricName, Value |-> value]

NoContainerResource == ContainerResourceMetricSource(FALSE, "", "", NilValue)
NoExternal == ExternalMetricSource(FALSE, <<>>, NilValue)

MetricSpec(type, containerResource, external) ==
    [Type |-> type, ContainerResource |-> containerResource, External |-> external]

ContainerResourceMetric(container, name, averageUtilization) ==
    MetricSpec(ContainerResourceMetricSourceType,
               ContainerResourceMetricSource(TRUE, container, name, averageUtilization),
               NoExternal)

ExternalMetric(metricName, value) ==
    MetricSpec(ExternalMetricSourceType, NoContainerResource,
               ExternalMetricSource(TRUE, metricName, value))

\* hpa.GetAnnotations()[key]: the empty string when the key is absent.
GetAnnotation(h, key) ==
    IF key \in DOMAIN h.Annotations THEN h.Annotations[key] ELSE <<>>

----------------------------------------------------------------------------
(* externalMetricNameFromAnnotation and updateHPATargetValue. *)

\* externalMetricNameFromAnnotation: the annotation's prefix followed by the
\* container name; an error for a resource other than cpu and memory.
externalMetricNameFromAnnotation(h, containerName, k) ==
    CASE k = ResourceCPU ->
           [err |-> FALSE,
            name |-> GetAnnotation(h, HPAContainerBasedCPUExternalMetricNamePrefixAnnotation)
                       \o <<containerName>>]
      [] k = ResourceMemory ->
           [err |-> FALSE,
            name |-> GetAnnotation(h, HPAContainerBasedMemoryExternalMetricNamePrefixAnnotation)
                       \o <<containerName>>]
      [] OTHER -> [err |-> TRUE, name |-> <<>>]

\* A slip: the container's name is not compared.
ContainerResourceHitAnyContainer(m, containerName, k) ==
    /\ m.Type = ContainerResourceMetricSourceType
    /\ m.ContainerResource.present
    /\ m.ContainerResource.Name = k
    /\ m.ContainerResource.AverageUtilization # NilValue

\* The first loop's test of one entry (client.go:204-216): the entry is
\* rewritten when none of the three "continue" is taken.
ContainerResourceHit(m, containerName, k) ==
    /\ m.Type = ContainerResourceMetricSourceType
    /\ m.ContainerResource.present
    /\ m.ContainerResource.Container = containerName
    /\ m.ContainerResource.Name = k
    /\ m.ContainerResource.AverageUtilization # NilValue

\* The second loop's test of one entry (client.go:227-239).
ExternalHit(m, externalMetricName) ==
    /\ m.Type = ExternalMetricSourceType
    /\ m.External.present
    /\ m.External.MetricName = externalMetricName

\* A slip: the target is added to the utilization.
SetAverageUtilizationAdds(m, targetValue) ==
    [m EXCEPT !.ContainerResource.AverageUtilization =
                  m.ContainerResource.AverageUtilization + targetValue]

\* client.go:218.
SetAverageUtilization(m, targetValue) ==
    [m EXCEPT !.ContainerResource.AverageUtilization = targetValue]

\* A slip: Quantity.Add for Quantity.Set.
SetValueAdds(m, targetValue) ==
    [m EXCEPT !.External.Value = m.External.Value + targetValue]

\* client.go:241, on a Value that is not nil.
SetValue(m, targetValue) ==
    [m EXCEPT !.External.Value = targetValue]

\* The first loop (client.go:203-219).
RewriteContainerResources(metrics, containerName, k, targetValue) ==
    [i \in DOMAIN metrics |->
        IF ContainerResourceHit(metrics[i], containerName, k)
        THEN SetAverageUtilization(metrics[i], targetValue)
        ELSE metrics[i]]

\* The index of the first entry the second loop calls Value.Set on with a
\* nil Value (a nil pointer dereference), or 0.
FirstNilValue(metrics, externalMetricName) ==
    LET bad == {i \in DOMAIN metrics :
                   ExternalHit(metrics[i], externalMetricName)
                   /\ metrics[i].External.Value = NilValue}
    IN IF bad = {} THEN 0 ELSE CHOOSE i \in bad : \A j \in bad : i <= j

\* The second loop (client.go:226-242), up to the entry it panics on.
RewriteExternals(metrics, externalMetricName, targetValue) ==
    LET stop == FirstNilValue(metrics, externalMetricName)
    IN [i \in DOMAIN metrics |->
          IF ExternalHit(metrics[i], externalMetricName) /\ (stop = 0 \/ i < stop)
          THEN SetValue(metrics[i], targetValue)
          ELSE metrics[i]]

\* updateHPATargetValue: what became of the HPA object, whether an error was
\* returned, whether the call panicked.
updateHPATargetValue(h, containerName, k, targetValue) ==
    LET m1 == RewriteContainerResources(h.Metrics, containerName, k, targetValue)
        n  == externalMetricNameFromAnnotation(h, containerName, k)
    IN IF n.err
       THEN [err |-> TRUE, panic |-> FALSE, hpa |-> [h EXCEPT !.Metrics = m1]]
       ELSE [err |-> FALSE,
             panic |-> FirstNilValue(m1, n.name) # 0,
             hpa |-> [h EXCEPT !.Metrics = RewriteExternals(m1, n.name, targetValue)]]

----------------------------------------------------------------------------
(* The replica bounds of one pass (client.go:143-174). *)

\* A reduction factor is the fraction num/den.  The factors the model draws
\* (ReductionFactors) are such that the float64 product of client.go:160
\* truncates to the same integer as the exact product, for every replica
\* count up to far beyond MaxReplicas.
Factor(num, den) == [num |-> num, den |-> den]

\* A slip: the current min is divided by the factor.
ReducedByDivision(currentMin, f) == (currentMin * f.den) \div f.num

\* A slip: the factor is left out, so nothing decays.
ReducedWithoutFactor(currentMin, f) == currentMin

\* int32(math.Trunc(float64(currentMin) * c.replicaReductionFactor)), for
\* currentMin >= 0.
Reduced(currentMin, f) == (currentMin * f.num) \div f.den

\* A slip: the reduced value is taken without the comparison with idealMin.
PlanBackToNormalUnchecked(idealMin, currentMin, f) ==
    [min |-> Reduced(currentMin, f), phase |-> TortoisePhaseBackToNormal]

\* A slip: >= for >, so that the decay stops one pass early when the reduced
\* value equals idealMin.
PlanBackToNormalInclusive(idealMin, currentMin, f) ==
    IF idealMin >= Reduced(currentMin, f)
    THEN [min |-> idealMin, phase |-> TortoisePhaseWorking]
    ELSE [min |-> Reduced(currentMin, f), phase |-> TortoisePhaseBackToNormal]

\* The BackToNormal case once idealMin is known (client.go:159-167).
PlanBackToNormal(idealMin, currentMin, f) ==
    IF idealMin > Reduced(currentMin, f)
    THEN [min |-> idealMin, phase |-> TortoisePhaseWorking]
    ELSE [min |-> Reduced(currentMin, f), phase |-> TortoisePhaseBackToNormal]

\* A slip: the emergency floor is taken one below the maximum.
PlanEmergencyBelowMax(max, ph) == [min |-> max - 1, phase |-> ph]

\* A slip: the emergency pass leaves the emergency by itself.
PlanEmergencyExits(max, ph) == [min |-> max, phase |-> TortoisePhaseBackToNormal]

\* The Emergency case (client.go:151-153): the phase is left as it is.
PlanEmergency(max, ph) == [min |-> max, phase |-> ph]

\* A slip: the maximum is never lowered.
SetMaxReplicasNeverLower(h, max) ==
    IF h.MaxReplicas > max THEN h ELSE [h EXCEPT !.MaxReplicas = max]

\* client.go:147.
SetMaxReplicas(h, max) == [h EXCEPT !.MaxReplicas = max]

\* The max lookup and the switch on the phase (client.go:143-174), on the
\* HPA object h the metrics were rewritten on: the error returned, if any,
\* the object as it would be handed to Update, and the tortoise's phase.
PlanReplicas(h, ph, recs, f, t) ==
    LET max      == getReplicasRecommendation(recs.MaxReplicas, t)
        idealMin == getReplicasRecommendation(recs.MinReplicas, t)
        btn      == PlanBackToNormal(idealMin.value, h.MinReplicas, f)
        em       == PlanEmergency(max.value, ph)
        h1       == SetMaxReplicas(h, max.value)
    IN  IF max.err THEN [err |-> "max", hpa |-> h, phase |-> ph]
        ELSE IF ph = TortoisePhaseEmergency
        THEN [err |-> "none", phase |-> em.phase,
              hpa |-> [h1 EXCEPT !.MinReplicas = em.min]]
        ELSE IF idealMin.err THEN [err |-> "min", hpa |-> h1, phase |-> ph]
        ELSE IF ph = TortoisePhaseBackToNormal
        THEN [err |-> "none", phase |-> btn.phase,
              hpa |-> [h1 EXCEPT !.MinReplicas = btn.min]]
        ELSE [err |-> "none", phase |-> ph,
              hpa |-> [h1 EXCEPT !.MinReplicas = idealMin.value]]

----------------------------------------------------------------------------
(* The rewriting of the metrics of one pass (client.go:135-141). *)

\* One entry of TargetUtilizations: a container and its map from resource
\* name to target utilization.
HPATargetUtilizationRecommendationPerContainer(containerName, targetUtilization) ==
    [ContainerName |-> containerName, TargetUtilization |-> targetUtilization]

\* The orders in which a range over a map with the keys S may visit them.
KeyOrders(S) ==
    {o \in [1..Cardinality(S) -> S] : \A i, j \in DOMAIN o : o[i] = o[j] => i = j}

\* One order per entry of TargetUtilizations.
MapOrders(tus) ==
    {os \in [DOMAIN tus -> UNION {KeyOrders(DOMAIN tus[i].TargetUtilization) : i \in DOMAIN tus}] :
        \A i \in DOMAIN tus : os[i] \in KeyOrders(DOMAIN tus[i].TargetUtilization)}

\* The inner loop from its j-th key on (client.go:136-140).
RECURSIVE RewriteKeys(_, _, _, _)
RewriteKeys(r, t, order, j) ==
    IF r.err \/ r.panic \/ j > Len(order) THEN r
    ELSE RewriteKeys(
            updateHPATargetValue(r.hpa, t.ContainerName, order[j],
                                 t.TargetUtilization[order[j]]),
            t, order, j + 1)

\* The outer loop from its i-th entry on (client.go:135-141).
RECURSIVE RewriteTargets(_, _, _, _)
RewriteTargets(r, tus, orders, i) ==
    IF r.err \/ r.panic \/ i > Len(tus) THEN r
    ELSE RewriteTargets(RewriteKeys(r, tus[i], orders[i], 1), tus, orders, i + 1)

----------------------------------------------------------------------------
(* The states the model starts from. *)

HorizontalPodAutoscaler(annotations, minReplicas, maxReplicas, metrics) ==
    [Annotations |-> annotations, MinReplicas |-> minReplicas,
     MaxReplicas |-> maxReplicas, Metrics |-> metrics]

\* The annotations of an HPA made by CreateHPAOnTortoise (client.go:48-51).
CreatedAnnotations ==
    (HPAContainerBasedCPUExternalMetricNamePrefixAnnotation :> CPUPrefix)
    @@ (HPAContainerBasedMemoryExternalMetricNamePrefixAnnotation :> MemoryPrefix)

\* An HPA the user made carries any of them, or none.
AnnotationSets ==
    {[key \in keys |-> CreatedAnnotations[key]] : keys \in SUBSET DOMAIN CreatedAnnotations}

Containers == {"api", "worker"}

ReductionFactors == {Factor(1, 2), Factor(9, 10), Factor(1, 1)}

Times == {Time(Monday, 11), Time(Monday, 14), Time(Tuesday, 14)}

MinReplicasLists ==
    { <<>>,
      <<ReplicasRecommendation(Monday, 0, 12, 2), ReplicasRecommendation(Monday, 12, 24, 6)>>,
      <<ReplicasRecommendation(Monday, 0, 24, 0), ReplicasRecommendation(Tuesday, 0, 24, 6)>>,
      <<ReplicasRecommendation(Monday, 0, 24, 6), ReplicasRecommendation(Monday, 12, 24, 2),
        ReplicasRecommendation(Tuesday, 0, 14, 2)>> }

MaxReplicasLists ==
    { <<>>,
      <<ReplicasRecommendation(Monday, 0, 12, 4), ReplicasRecommendation(Monday, 12, 24, MaxReplicas)>>,
      <<ReplicasRecommendation(Monday, 0, 24, MaxReplicas), ReplicasRecommendation(Monday, 12, 24, 4),
        ReplicasRecommendation(Tuesday, 0, 24, 8)>> }

TargetUtilizationsLists ==
    { <<>>,
      <<HPATargetUtilizationRecommendationPerContainer("api", (ResourceCPU :> 70))>>,
      <<HPATargetUtilizationRecommendationPerContainer("api",
            (ResourceCPU :> 70) @@ (ResourceMemory :> 80))>>,
      <<HPATargetUtilizationRecommendationPerContainer("api", (ResourceCPU :> 70)),
        HPATargetUtilizationRecommendationPerContainer("worker", (ResourceCPU :> 60))>>,
      <<HPATargetUtilizationRecommendationPerContainer("api", (ResourceCPU :> 70)),
        HPATargetUtilizationRecommendationPerContainer("worker", (ResourceEphemeralStorage :> 60))>> }

HorizontalRecommendations(targetUtilizations, minReplicas, maxReplicas) ==
    [TargetUtilizations |-> targetUtilizations, MinReplicas |-> minReplicas,
     MaxReplicas |-> maxReplicas]

\* The entries hpa.Spec.Metrics is drawn from: container resource metrics and
\* external metrics of both containers and resources, entries whose body or
\* target is nil, and a metric of a third type.
MetricEntries ==
    { ContainerResourceMetric("api", ResourceCPU, 50),
      ContainerResourceMetric("api", ResourceMemory, 50),
      ContainerResourceMetric("worker", ResourceCPU, 50),
      ContainerResourceMetric("api", ResourceCPU, NilValue),
      MetricSpec(ContainerResourceMetricSourceType, NoContainerResource, NoExternal),
      ExternalMetric(CPUPrefix \o <<"api">>, 50),
      ExternalMetric(MemoryPrefix \o <<"api">>, 50),
      ExternalMetric(CPUPrefix \o <<"worker">>, 50),
      ExternalMetric(<<"api">>, 50),
      ExternalMetric(CPUPrefix \o <<"api">>, NilValue),
      MetricSpec(ExternalMetricSourceType, NoContainerResource, NoExternal),
      MetricSpec(ResourceMetricSourceType, NoContainerResource, NoExternal) }

MetricsLists == UNION {[1..n -> MetricEntries] : n \in 0..MaxMetrics}

\* The small set of metric lists the passes are run on: what
\* CreateHPAOnTortoise makes, what a user makes, and lists with the entries
\* the rewrite stumbles on.
PassMetricsLists ==
    { <<ExternalMetric(CPUPrefix \o <<"api">>, 50), ExternalMetric(MemoryPrefix \o <<"api">>, 50)>>,
      <<ContainerResourceMetric("api", ResourceCPU, 50), ContainerResourceMetric("worker", ResourceCPU, 50)>>,
      <<ExternalMetric(<<"api">>, 50), ContainerResourceMetric("api", ResourceMemory, 50)>>,
      <<ExternalMetric(CPUPrefix \o <<"api">>, NilValue)>> }

\* No call has been made since the phase or the time last changed.
NoCall ==
    [op |-> "none", err |-> "none", repeat |-> FALSE, odd |-> FALSE,
     phaseIn |-> "", phaseOut |-> "",
     now |-> Time(Monday, 0), before |-> HorizontalPodAutoscaler(<<>>, 0, 0, <<>>),
     after |-> HorizontalPodAutoscaler(<<>>, 0, 0, <<>>),
     containerName |-> "", k |-> "", targetValue |-> 0, value |-> 0,
     replicas |-> 0, resourcePolicy |-> <<>>, existed |-> FALSE,
     storeErr |-> "", returned |-> FALSE, target |-> ""]

\* HPAs and recommendations that differ in their replica bounds, with the
\* metrics CreateHPAOnTortoise makes for one container's cpu.
InitReplicas ==
    /\ \E min \in 0..MaxReplicas, max \in {1, MaxReplicas} :
          hpa = HorizontalPodAutoscaler(CreatedAnnotations, min, max,
                                        <<ExternalMetric(CPUPrefix \o <<"api">>, 50)>>)
    /\ \E mins \in MinReplicasLists, maxs \in MaxReplicasLists :
          recommendations =
              HorizontalRecommendations(
                  <<HPATargetUtilizationRecommendationPerContainer("api", (ResourceCPU :> 70))>>,
                  mins, maxs)
    /\ phase \in TortoisePhases
    /\ now \in Times
    /\ replicaReductionFactor \in ReductionFactors

\* HPAs and recommendations that differ in their metrics and annotations.
InitMetrics ==
    /\ \E ann \in AnnotationSets, metrics \in PassMetricsLists :
          hpa = HorizontalPodAutoscaler(ann, 3, 5, metrics)
    /\ \E tus \in TargetUtilizationsLists :
          recommendations =
              HorizontalRecommendations(tus,
                  <<ReplicasRecommendation(Monday, 0, 24, 2)>>,
                  <<ReplicasRecommendation(Monday, 0, 24, 4)>>)
    /\ phase \in {TortoisePhaseWorking, TortoisePhaseBackToNormal}
    /\ now \in {Time(Monday, 11), Time(Tuesday, 14)}
    /\ replicaReductionFactor = Factor(9, 10)

Init ==
    /\ InitReplicas \/ InitMetrics
    /\ last = NoCall
    /\ exists = TRUE

\* A tortoise on its way back to normal: any live minReplicas, any factor,
\* any of the recommendation lists.
InitDecay ==
    /\ \E min \in 0..MaxReplicas :
          hpa = HorizontalPodAutoscaler(CreatedAnnotations, min, MaxReplicas,
                                        <<ExternalMetric(CPUPrefix \o <<"api">>, 50)>>)
    /\ \E mins \in MinReplicasLists, maxs \in MaxReplicasLists :
          recommendations =
              HorizontalRecommendations(
                  <<HPATargetUtilizationRecommendationPerContainer("api", (ResourceCPU :> 70))>>,
                  mins, maxs)
    /\ phase = TortoisePhaseBackToNormal
    /\ now \in Times
    /\ replicaReductionFactor \in ReductionFactors
    /\ last = NoCall
    /\ exists = TRUE

\* The slots getReplicasRecommendation is tried on: both weekdays, ranges
\* that meet at 12 and ranges that overlap, two values.
Slots ==
    {ReplicasRecommendation(d, r[1], r[2], v) :
        d \in {Monday, Tuesday}, r \in {<<0, 12>>, <<12, 24>>, <<0, 24>>}, v \in {3, 5}}

SlotLists == UNION {[1..n -> Slots] : n \in 0..MaxSlots}

LookupTimes ==
    {Time(Monday, 0), Time(Monday, 11), Time(Monday, 12), Time(Monday, 14),
     Time(Monday, 23), Time(Tuesday, 14)}

\* Every list of slots and every time getReplicasRecommendation is tried on.
InitLookup ==
    /\ hpa = HorizontalPodAutoscaler(CreatedAnnotations, 3, 5, <<>>)
    /\ \E slots \in SlotLists :
          recommendations = HorizontalRecommendations(<<>>, <<>>, slots)
    /\ phase = TortoisePhaseWorking
    /\ now \in LookupTimes
    /\ replicaReductionFactor = Factor(1, 1)
    /\ last = NoCall
    /\ exists = TRUE

\* Every HPA object updateHPATargetValue is tried on.
InitRewrite ==
    /\ \E ann \in AnnotationSets, metrics \in MetricsLists :
          hpa = HorizontalPodAutoscaler(ann, 3, 5, metrics)
    /\ recommendations = HorizontalRecommendations(<<>>, <<>>, <<>>)
    /\ phase = TortoisePhaseWorking
    /\ now = Time(Monday, 11)
    /\ replicaReductionFactor = Factor(1, 1)
    /\ last = NoCall
    /\ exists = TRUE

----------------------------------------------------------------------------
(* The calls. *)

\* The record of a call made in the current state.  repeat: the call before
\* it was the same call with the same inputs, and succeeded.  odd: the parity
\* of the number of calls made in a row, which tells a call that changes
\* nothing from no call.
Call(op, err, phaseOut, after, containerName, k, targetValue) ==
    [op |-> op, err |-> err, phaseIn |-> phase, phaseOut |-> phaseOut, now |-> now,
     before |-> hpa, after |-> after,
     containerName |-> containerName, k |-> k, targetValue |-> targetValue,
     value |-> 0,
     replicas |-> 0, resourcePolicy |-> <<>>, existed |-> exists,
     storeErr |-> "", returned |-> FALSE, target |-> "",
     odd |-> ~last.odd,
     repeat |-> /\ last.op = op /\ last.err = "none"
                /\ last.phaseIn = phase /\ last.now = now /\ last.after = hpa
                /\ last.containerName = containerName /\ last.k = k
                /\ last.targetValue = targetValue]

\* A slip: Update is called before the min lookup's error is looked at.
UpdateOutcomeUpdatesFirst(h, ph, recs, f, t, getFails, updateFails, orders) ==
    LET rw   == RewriteTargets([err |-> FALSE, panic |-> FALSE, hpa |-> h],
                               recs.TargetUtilizations, orders, 1)
        plan == PlanReplicas(rw.hpa, ph, recs, f, t)
    IN  IF getFails THEN [err |-> "get", stored |-> h, phase |-> ph]
        ELSE IF rw.panic THEN [err |-> "panic", stored |-> h, phase |-> ph]
        ELSE IF rw.err THEN [err |-> "rewrite", stored |-> h, phase |-> ph]
        ELSE IF plan.err = "max" THEN [err |-> plan.err, stored |-> h, phase |-> plan.phase]
        ELSE IF updateFails THEN [err |-> "update", stored |-> h, phase |-> plan.phase]
        ELSE [err |-> plan.err, stored |-> plan.hpa, phase |-> plan.phase]

\* What one call of UpdateHPAFromTortoiseRecommendation returns and leaves in
\* the store, given what Get and Update answer and the orders the maps are
\* ranged over: the error, the stored HPA and the tortoise's phase.
UpdateOutcome(h, ph, recs, f, t, getFails, updateFails, orders) ==
    LET rw   == RewriteTargets([err |-> FALSE, panic |-> FALSE, hpa |-> h],
                               recs.TargetUtilizations, orders, 1)
        plan == PlanReplicas(rw.hpa, ph, recs, f, t)
    IN  IF getFails THEN [err |-> "get", stored |-> h, phase |-> ph]
        ELSE IF rw.panic THEN [err |-> "panic", stored |-> h, phase |-> ph]
        ELSE IF rw.err THEN [err |-> "rewrite", stored |-> h, phase |-> ph]
        ELSE IF plan.err # "none" THEN [err |-> plan.err, stored |-> h, phase |-> plan.phase]
        ELSE IF updateFails THEN [err |-> "update", stored |-> h, phase |-> plan.phase]
        ELSE [err |-> "none", stored |-> plan.hpa, phase |-> plan.phase]

\* UpdateHPAFromTortoiseRecommendation(ctx, tortoise, now).
UpdateHPAFromTortoiseRecommendation(getFails, updateFails, orders) ==
    LET out == UpdateOutcome(hpa, phase, recommendations, replicaReductionFactor, now,
                             getFails, updateFails, orders)
    IN  /\ hpa' = out.stored
        /\ phase' = out.phase
        /\ last' = Call("Update", out.err, out.phase, out.stored, "", "", 0)
        /\ UNCHANGED <<exists, recommendations, now, replicaReductionFactor>>

\* A successful pass: Get and Update both answer without error.
Reconcile ==
    \E orders \in MapOrders(recommendations.TargetUtilizations) :
        UpdateHPAFromTortoiseRecommendation(FALSE, FALSE, orders)

\* A pass in which the store refuses the Get or the Update.
ReconcileStoreError ==
    \E getFails \in BOOLEAN, orders \in MapOrders(recommendations.TargetUtilizations) :
        UpdateHPAFromTortoiseRecommendation(getFails, ~getFails, orders)

\* updateHPATargetValue called on the HPA object by itself.
RewriteMetrics ==
    \E c \in Containers, k \in {ResourceCPU, ResourceMemory, ResourceEphemeralStorage},
       v \in {70} :
        LET r == updateHPATargetValue(hpa, c, k, v)
        IN  /\ hpa' = r.hpa
            /\ last' = Call("Rewrite",
                            IF r.panic THEN "panic" ELSE IF r.err THEN "rewrite" ELSE "none",
                            phase, r.hpa, c, k, v)
            /\ UNCHANGED <<exists, phase, recommendations, now, replicaReductionFactor>>

\* getReplicasRecommendation called by itself, on the max recommendations.
LookupReplicas ==
    LET r == getReplicasRecommendation(recommendations.MaxReplicas, now)
    IN  /\ last' = [Call("Lookup", IF r.err THEN "max" ELSE "none", phase, hpa, "", "", 0)
                      EXCEPT !.value = r.value]
        /\ UNCHANGED <<exists, hpa, phase, recommendations, now, replicaReductionFactor>>

\* Another time is asked for.
LookupTimePasses ==
    /\ now' \in LookupTimes \ {now}
    /\ last' = NoCall
    /\ UNCHANGED <<exists, hpa, phase, recommendations, replicaReductionFactor>>

----------------------------------------------------------------------------
(* CreateHPAOnTortoise. *)

\* One entry of tortoise.Spec.ResourcePolicy: a container and its map from
\* resource name to autoscaling type.
ContainerResourcePolicy(containerName, autoscalingPolicy) ==
    [ContainerName |-> containerName, AutoscalingPolicy |-> autoscalingPolicy]

\* One order per entry of ResourcePolicy.
PolicyOrders(rp) ==
    {os \in [DOMAIN rp -> UNION {KeyOrders(DOMAIN rp[i].AutoscalingPolicy) : i \in DOMAIN rp}] :
        \A i \in DOMAIN rp : os[i] \in KeyOrders(DOMAIN rp[i].AutoscalingPolicy)}

\* int32(math.Ceil(float64(replicas) / 2.0)), for replicas >= 0: the float64
\* holds every int32 and its half exactly.
CeilHalf(replicas) == (replicas \div 2) + (replicas % 2)

\* replicas * 2 in int32, for replicas >= 0: the product less 2^32 when it
\* is above MaxInt32.
DoubleInt32(replicas) ==
    IF replicas <= MaxInt32 \div 2 THEN replicas * 2
    ELSE ((replicas - (MaxInt32 \div 2 + 1)) * 2 - MaxInt32) - 1

\* A slip: 90 for horizontal, 50 otherwise.
TargetValueOfSwapped(p) == IF p # AutoscalingTypeHorizontal THEN 50 ELSE 90

\* The value of the metric's target (client.go:86-89).
TargetValueOf(p) == IF p # AutoscalingTypeHorizontal THEN 90 ELSE 50

\* The inner loop from its j-th key on (client.go:85-107); acc holds the
\* metrics appended so far.
RECURSIVE CreateKeys(_, _, _, _, _)
CreateKeys(acc, h, c, order, j) ==
    IF acc.err \/ j > Len(order) THEN acc
    ELSE LET r == order[j]
             n == externalMetricNameFromAnnotation(h, c.ContainerName, r)
         IN  IF n.err THEN [err |-> TRUE, m |-> acc.m]
             ELSE CreateKeys(
                    [err |-> FALSE,
                     m |-> Append(acc.m,
                                  ExternalMetric(n.name, TargetValueOf(c.AutoscalingPolicy[r])))],
                    h, c, order, j + 1)

\* The outer loop from its i-th entry on (client.go:84-108).
RECURSIVE CreateMetrics(_, _, _, _, _)
CreateMetrics(acc, h, rp, orders, i) ==
    IF acc.err \/ i > Len(rp) THEN acc
    ELSE CreateMetrics(CreateKeys(acc, h, rp[i], orders[i], 1), h, rp, orders, i + 1)

\* The object CreateHPAOnTortoise builds before its loop (client.go:44-81).
\* Its name, scale target and behavior are the same in every call and are
\* not part of the model's HPA.
NewHPA(replicas) ==
    HorizontalPodAutoscaler(CreatedAnnotations, CeilHalf(replicas), DoubleInt32(replicas), <<>>)

\* A slip: an HPA that exists already is replaced by the one built.
CreateOutcomeOverwrites(h, ex, replicas, rp, orders, createFails) ==
    LET new   == NewHPA(replicas)
        m     == CreateMetrics([err |-> FALSE, m |-> <<>>], new, rp, orders, 1)
        built == [new EXCEPT !.Metrics = m.m]
    IN  IF m.err
        THEN [err |-> "name", storeErr |-> "", returned |-> FALSE, target |-> "",
              built |-> new, exists |-> ex, stored |-> h]
        ELSE IF createFails
        THEN [err |-> "create", storeErr |-> "Forbidden", returned |-> TRUE,
              target |-> HorizontalPodAutoscalerName,
              built |-> built, exists |-> ex, stored |-> h]
        ELSE IF ex
        THEN [err |-> "none", storeErr |-> "AlreadyExists", returned |-> FALSE,
              target |-> HorizontalPodAutoscalerName,
              built |-> built, exists |-> TRUE, stored |-> built]
        ELSE [err |-> "none", storeErr |-> "", returned |-> TRUE,
              target |-> HorizontalPodAutoscalerName,
              built |-> built, exists |-> TRUE, stored |-> built]

\* What one call of CreateHPAOnTortoise returns and leaves in the store and
\* on the tortoise, given the store (h, and ex: it holds an HPA of the name),
\* the deployment's replicas, the resource policy, the orders its maps are
\* ranged over, and whether Create fails for another reason than the name
\* being taken.  Create answers AlreadyExists exactly when the name is taken.
CreateOutcome(h, ex, replicas, rp, orders, createFails) ==
    LET new   == NewHPA(replicas)
        m     == CreateMetrics([err |-> FALSE, m |-> <<>>], new, rp, orders, 1)
        built == [new EXCEPT !.Metrics = m.m]
    IN  IF m.err
        THEN [err |-> "name", storeErr |-> "", returned |-> FALSE, target |-> "",
              built |-> new, exists |-> ex, stored |-> h]
        ELSE IF createFails
        THEN [err |-> "create", storeErr |-> "Forbidden", returned |-> TRUE,
              target |-> HorizontalPodAutoscalerName,
              built |-> built, exists |-> ex, stored |-> h]
        ELSE IF ex
        THEN [err |-> "none", storeErr |-> "AlreadyExists", returned |-> FALSE,
              target |-> HorizontalPodAutoscalerName,
              built |-> built, exists |-> TRUE, stored |-> h]
        ELSE [err |-> "none", storeErr |-> "", returned |-> TRUE,
              target |-> HorizontalPodAutoscalerName,
              built |-> built, exists |-> TRUE, stored |-> built]

\* The autoscaling policies of one container the model draws: every map
\* over cpu and memory, and two with a resource that has no prefix.
AutoscalingPolicies ==
    UNION {[ks -> {AutoscalingTypeHorizontal, AutoscalingTypeVertical}] :
              ks \in SUBSET {ResourceCPU, ResourceMemory}}
    \cup {(ResourceEphemeralStorage :> AutoscalingTypeHorizontal),
          (ResourceCPU :> AutoscalingTypeHorizontal)
             @@ (ResourceEphemeralStorage :> AutoscalingTypeVertical)}

\* The policies drawn for each of two containers.
SecondPolicies ==
    {(ResourceCPU :> AutoscalingTypeHorizontal),
     (ResourceMemory :> AutoscalingTypeVertical),
     (ResourceCPU :> AutoscalingTypeVertical) @@ (ResourceMemory :> AutoscalingTypeHorizontal)}

\* The resource policies the model draws: no container, one, or two of
\* different names.
ResourcePolicies ==
    {<<>>}
    \cup {<<ContainerResourcePolicy(c, p)>> : c \in Containers, p \in AutoscalingPolicies}
    \cup {rp \in {<<ContainerResourcePolicy(c, p), ContainerResourcePolicy(d, q)>> :
                     c \in Containers, d \in Containers,
                     p \in SecondPolicies
                            \cup {(ResourceEphemeralStorage :> AutoscalingTypeHorizontal)},
                     q \in SecondPolicies} :
             rp[1].ContainerName # rp[2].ContainerName}

\* dm.Status.Replicas: the small counts, and the largest ones around the
\* point where their double leaves int32.
ReplicasCounts ==
    0..MaxReplicas \cup {MaxInt32 \div 2, MaxInt32 \div 2 + 1, MaxInt32}

\* The deployment and the resource policy of one call: every count with one
\* policy, every policy with one count.
CreateInputs ==
    {[replicas |-> r,
      rp |-> <<ContainerResourcePolicy("api", (ResourceCPU :> AutoscalingTypeHorizontal))>>] :
        r \in ReplicasCounts}
    \cup {[replicas |-> 7, rp |-> rp] : rp \in ResourcePolicies}

\* An HPA the user made, under the name the tortoise gives.
UserHPAs ==
    {HorizontalPodAutoscaler(<<>>, 1, 3, <<ContainerResourceMetric("api", ResourceCPU, 60)>>),
     HorizontalPodAutoscaler(CreatedAnnotations, 2, 6,
                             <<ExternalMetric(CPUPrefix \o <<"api">>, 40)>>)}

\* No HPA in the store, or one the user made.
InitCreate ==
    /\ \/ /\ exists = FALSE
          /\ hpa = HorizontalPodAutoscaler(<<>>, 0, 0, <<>>)
       \/ /\ exists = TRUE
          /\ hpa \in UserHPAs
    /\ recommendations = HorizontalRecommendations(<<>>, <<>>, <<>>)
    /\ phase = TortoisePhaseInitializing
    /\ now = Time(Monday, 11)
    /\ replicaReductionFactor = Factor(9, 10)
    /\ last = NoCall

\* CreateHPAOnTortoise(ctx, tortoise, dm).
CreateHPAOnTortoise(in, orders, createFails) ==
    LET out == CreateOutcome(hpa, exists, in.replicas, in.rp, orders, createFails)
    IN  /\ hpa' = out.stored
        /\ exists' = out.exists
        /\ last' = [Call("Create", out.err, phase, out.built, "", "", 0)
                      EXCEPT !.replicas = in.replicas, !.resourcePolicy = in.rp,
                             !.storeErr = out.storeErr, !.returned = out.returned,
                             !.target = out.target]
        /\ UNCHANGED <<phase, recommendations, now, replicaReductionFactor>>

\* The calls of one behaviour end with the first that returns no error: a
\* call after it meets a store that holds an HPA, as the first call on one
\* of UserHPAs does.
CallAgain == last.op = "none" \/ last.err # "none"

\* A call whose Create is answered by the store as it is.
Create ==
    /\ CallAgain
    /\ \E in \in CreateInputs : \E orders \in PolicyOrders(in.rp) :
          CreateHPAOnTortoise(in, orders, FALSE)

\* A call whose Create fails for another reason than the name being taken.
CreateStoreError ==
    /\ CallAgain
    /\ \E in \in CreateInputs : \E orders \in PolicyOrders(in.rp) :
          CreateHPAOnTortoise(in, orders, TRUE)

----------------------------------------------------------------------------
(* What happens outside the client. *)

\* The operator turns the emergency mode on.
EnterEmergency ==
    /\ phase \in {TortoisePhaseWorking, TortoisePhaseBackToNormal}
    /\ phase' = TortoisePhaseEmergency
    /\ last' = NoCall
    /\ UNCHANGED <<exists, hpa, recommendations, now, replicaReductionFactor>>

\* The operator turns the emergency mode off.
LeaveEmergency ==
    /\ phase = TortoisePhaseEmergency
    /\ phase' = TortoisePhaseBackToNormal
    /\ last' = NoCall
    /\ UNCHANGED <<exists, hpa, recommendations, now, replicaReductionFactor>>

\* Time passes.
AdvanceTime ==
    /\ now' \in Times \ {now}
    /\ last' = NoCall
    /\ UNCHANGED <<exists, hpa, phase, recommendations, replicaReductionFactor>>

----------------------------------------------------------------------------
(* The specifications. *)

Next ==
    \/ Reconcile
    \/ ReconcileStoreError
    \/ EnterEmergency
    \/ LeaveEmergency
    \/ AdvanceTime

\* Passes over one tortoise, the store failing at times, the phase and the
\* time changing between passes.
Spec == Init /\ [][Next]_vars

\* Successful passes only, nothing changing between them; the control loop
\* re-syncs periodically, so a pass that can be made is made.
NextPasses == Reconcile

FairSpec == InitDecay /\ [][NextPasses]_vars /\ WF_vars(Reconcile)

\* updateHPATargetValue by itself, on every HPA object of Init.
NextRewrite == RewriteMetrics

SpecRewrite == InitRewrite /\ [][NextRewrite]_vars

\* getReplicasRecommendation by itself, on every list of slots of InitLookup.
NextLookup ==
    \/ LookupReplicas
    \/ LookupTimePasses

SpecLookup == InitLookup /\ [][NextLookup]_vars

\* CreateHPAOnTortoise, on a store with and without an HPA of the name.
NextCreate ==
    \/ Create
    \/ CreateStoreError

SpecCreate == InitCreate /\ [][NextCreate]_vars

----------------------------------------------------------------------------
(* What the properties are stated in. *)

\* The call just made was a pass, and it returned no error.
Passed == last.op = "Update" /\ last.err = "none"

\* The recommendations looked up for the time of the call just made.
MaxLookup == getReplicasRecommendation(recommendations.MaxReplicas, last.now)
MinLookup == getReplicasRecommendation(recommendations.MinReplicas, last.now)

\* q is the floor of x * f.
IsFloorOfProduct(q, x, f) == q * f.den <= x * f.num /\ x * f.num < (q + 1) * f.den

\* A pass made in the current state returns no error, whatever the order of
\* the maps.
PassWouldSucceed ==
    \A orders \in MapOrders(recommendations.TargetUtilizations) :
        UpdateOutcome(hpa, phase, recommendations, replicaReductionFactor, now,
                      FALSE, FALSE, orders).err = "none"

CurrentIdealMin == getReplicasRecommendation(recommendations.MinReplicas, now).value

DecayingFactor == replicaReductionFactor.num < replicaReductionFactor.den

----------------------------------------------------------------------------
(* C1 *)

\* C1, as stated: from phase BackToNormal, whatever the live minReplicas and
\* the reduction factor in (0, 1], successful passes in a fixed matching time
\* window eventually set the phase to Working.
C1_AnyFactorConverges ==
    (phase = TortoisePhaseBackToNormal /\ PassWouldSucceed)
        ~> (phase = TortoisePhaseWorking)

\* C1, amended: from phase BackToNormal, with a reduction factor below 1 and
\* an idealMin of at least 1, successful passes in a fixed matching time
\* window eventually set the phase to Working; and every pass that leaves the
\* phase BackToNormal lowers minReplicas strictly, so the number of passes is
\* at most the live minReplicas plus one.
C1_DecayConverges ==
    /\ (phase = TortoisePhaseBackToNormal /\ PassWouldSucceed
            /\ DecayingFactor /\ CurrentIdealMin >= 1)
          ~> (phase = TortoisePhaseWorking)
    /\ [][(phase = TortoisePhaseBackToNormal /\ phase' = TortoisePhaseBackToNormal
             /\ PassWouldSucceed /\ DecayingFactor /\ CurrentIdealMin >= 1)
            => hpa'.MinReplicas < hpa.MinReplicas]_vars

\* A second BackToNormal pass in a row, with a factor below 1, crossed and
\* set the phase to Working.
C1_Witness ==
    /\ Passed /\ last.repeat
    /\ last.phaseIn = TortoisePhaseBackToNormal
    /\ phase = TortoisePhaseWorking
    /\ DecayingFactor
    /\ MinLookup.value >= 1

----------------------------------------------------------------------------
(* C2 *)

\* C2: every successful pass in phase BackToNormal or Working persists a
\* minReplicas that is at least idealMin, the min recommendation looked up
\* for the pass's time; so the decay never drops below idealMin, and neither
\* does any pass once Working is reached.
C2_MinNeverBelowIdeal ==
    (Passed /\ last.phaseIn \in {TortoisePhaseBackToNormal, TortoisePhaseWorking})
        => /\ ~MinLookup.err
           /\ last.after.MinReplicas >= MinLookup.value
           /\ hpa = last.after

\* A BackToNormal pass lowered minReplicas and stayed above idealMin.
C2_Witness ==
    /\ Passed
    /\ last.phaseIn = TortoisePhaseBackToNormal
    /\ last.after.MinReplicas < last.before.MinReplicas
    /\ last.after.MinReplicas > MinLookup.value

----------------------------------------------------------------------------
(* C3 *)

\* C3: every successful pass in phase Emergency persists maxReplicas = the
\* max recommendation looked up for now and minReplicas = maxReplicas,
\* whatever the bounds were before and whatever the min recommendations hold.
C3_EmergencyPinsMinToMax ==
    (Passed /\ last.phaseIn = TortoisePhaseEmergency)
        => /\ ~MaxLookup.err
           /\ hpa.MaxReplicas = MaxLookup.value
           /\ hpa.MinReplicas = hpa.MaxReplicas

\* An Emergency pass succeeded with no min recommendation for now, and moved
\* both bounds.
C3_Witness ==
    /\ Passed
    /\ last.phaseIn = TortoisePhaseEmergency
    /\ MinLookup.err
    /\ last.before.MinReplicas # hpa.MinReplicas
    /\ last.before.MaxReplicas # hpa.MaxReplicas

----------------------------------------------------------------------------
(* C4 *)

\* C4: a successful BackToNormal pass takes reducedMin = floor(currentMin x
\* reductionFactor) of the live minReplicas; if idealMin > reducedMin it
\* persists idealMin and sets the phase to Working, otherwise (equality
\* included) it persists reducedMin and leaves the phase BackToNormal.
C4_BackToNormalStep ==
    (Passed /\ last.phaseIn = TortoisePhaseBackToNormal)
        => \E reducedMin \in 0..last.before.MinReplicas :
              /\ IsFloorOfProduct(reducedMin, last.before.MinReplicas, replicaReductionFactor)
              /\ IF MinLookup.value > reducedMin
                 THEN hpa.MinReplicas = MinLookup.value /\ phase = TortoisePhaseWorking
                 ELSE hpa.MinReplicas = reducedMin /\ phase = TortoisePhaseBackToNormal

\* currentMin = 10, idealMin = 6, factor 0.9: min = 9, phase BackToNormal.
C4_Witness ==
    /\ Passed
    /\ last.phaseIn = TortoisePhaseBackToNormal
    /\ last.before.MinReplicas = 10
    /\ MinLookup.value = 6
    /\ replicaReductionFactor = Factor(9, 10)
    /\ hpa.MinReplicas = 9
    /\ phase = TortoisePhaseBackToNormal

----------------------------------------------------------------------------
(* C5 *)

\* C5: a pass that fails on a lookup (max in any phase, min in BackToNormal
\* and the default case) or on a rewrite's naming error returns its error
\* without Update: the stored HPA is what it was before the pass.
C5_FailedPassLeavesStore ==
    /\ (last.op = "Update" /\ last.err \in {"max", "min", "rewrite"})
          => hpa = last.before /\ last.after = last.before
    /\ (last.op = "Update" /\ last.err \notin {"get", "panic"} /\ MaxLookup.err)
          => last.err \in {"max", "rewrite"}
    /\ (last.op = "Update" /\ last.err \notin {"get", "panic"} /\ MinLookup.err
            /\ last.phaseIn # TortoisePhaseEmergency)
          => last.err \in {"max", "min", "rewrite"}

\* A pass rewrote a metric of the object in hand and then failed on the min
\* lookup.
C5_Witness ==
    /\ last.op = "Update"
    /\ last.err = "min"
    /\ \E i \in DOMAIN hpa.Metrics, orders \in MapOrders(recommendations.TargetUtilizations) :
          RewriteTargets([err |-> FALSE, panic |-> FALSE, hpa |-> hpa],
                         recommendations.TargetUtilizations, orders, 1).hpa.Metrics[i]
              # hpa.Metrics[i]
    /\ hpa.MaxReplicas # MaxLookup.value

----------------------------------------------------------------------------
(* What the properties of updateHPATargetValue are stated in. *)

\* The call just made was updateHPATargetValue by itself.
Rewrote == last.op = "Rewrite"

PrefixAnnotation(k) ==
    IF k = ResourceCPU THEN HPAContainerBasedCPUExternalMetricNamePrefixAnnotation
    ELSE HPAContainerBasedMemoryExternalMetricNamePrefixAnnotation

\* The (container, resource) pairs a metric can be the metric of.
Pairs == Containers \X {ResourceCPU, ResourceMemory}

\* m is the metric of the pair (c, k) on the HPA h: a container resource
\* metric of that container and resource, or the external metric named by
\* h's NamingPrefix annotation for k followed by c.
MetricOf(m, h, c, k) ==
    \/ /\ m.Type = ContainerResourceMetricSourceType
       /\ m.ContainerResource.present
       /\ m.ContainerResource.Container = c
       /\ m.ContainerResource.Name = k
    \/ /\ m.Type = ExternalMetricSourceType
       /\ m.External.present
       /\ PrefixAnnotation(k) \in DOMAIN h.Annotations
       /\ m.External.MetricName = h.Annotations[PrefixAnnotation(k)] \o <<c>>

----------------------------------------------------------------------------
(* C6 *)

\* C6, as stated: updateHPATargetValue (and externalMetricNameFromAnnotation
\* in it) returns an error whenever the HPA carries no NamingPrefix
\* annotation for the requested resource, cpu or memory; no name is built
\* from an absent prefix.
C6_AbsentPrefixIsAnError ==
    (Rewrote /\ last.k \in {ResourceCPU, ResourceMemory}
        /\ PrefixAnnotation(last.k) \notin DOMAIN last.before.Annotations)
        => /\ last.err = "rewrite"
           /\ externalMetricNameFromAnnotation(last.before, last.containerName, last.k).err

----------------------------------------------------------------------------
(* C7 *)

\* No two recommended (container, resource) pairs name the same external
\* metric on the HPA h.
NoSharedMetricName(h) ==
    \A i, j \in DOMAIN recommendations.TargetUtilizations :
        \A k1 \in DOMAIN recommendations.TargetUtilizations[i].TargetUtilization,
           k2 \in DOMAIN recommendations.TargetUtilizations[j].TargetUtilization :
            LET c1 == recommendations.TargetUtilizations[i].ContainerName
                c2 == recommendations.TargetUtilizations[j].ContainerName
            IN  (<<c1, k1>> # <<c2, k2>>)
                  => externalMetricNameFromAnnotation(h, c1, k1).name
                        # externalMetricNameFromAnnotation(h, c2, k2).name

----------------------------------------------------------------------------
(* C8 *)

\* C8: updateHPATargetValue for one (container, resource) pair leaves every
\* metric of a different pair as it was (another container's metric of the
\* same resource, the same container's metric of another resource; container
\* resource metrics and external metrics alike), and leaves the number of
\* metrics, minReplicas, maxReplicas and the annotations as they were.
C8_OtherPairsUntouched ==
    Rewrote =>
        /\ DOMAIN last.after.Metrics = DOMAIN last.before.Metrics
        /\ \A i \in DOMAIN last.before.Metrics :
              (\E p \in Pairs :
                  /\ p # <<last.containerName, last.k>>
                  /\ MetricOf(last.before.Metrics[i], last.before, p[1], p[2]))
                => last.after.Metrics[i] = last.before.Metrics[i]
        /\ last.after.MinReplicas = last.before.MinReplicas
        /\ last.after.MaxReplicas = last.before.MaxReplicas
        /\ last.after.Annotations = last.before.Annotations

\* A rewrite changed one metric of an HPA that also holds a metric of the
\* same kind for a different pair.
C8_Witness ==
    /\ Rewrote /\ last.err = "none"
    /\ \E i, j \in DOMAIN last.before.Metrics :
          /\ last.after.Metrics[i] # last.before.Metrics[i]
          /\ last.before.Metrics[j].Type = last.before.Metrics[i].Type
          /\ \E p \in Pairs :
                /\ p # <<last.containerName, last.k>>
                /\ MetricOf(last.before.Metrics[j], last.before, p[1], p[2])

----------------------------------------------------------------------------
(* C9 *)

\* C9: the only change of phase a pass makes is BackToNormal -> Working: a
\* pass in Emergency, in Working or in any other phase returns the phase it
\* was given, and a pass in BackToNormal returns BackToNormal or Working.
C9_OnlyBackToNormalToWorking ==
    (last.op = "Update") =>
        /\ phase = last.phaseOut
        /\ \/ last.phaseOut = last.phaseIn
           \/ /\ last.phaseIn = TortoisePhaseBackToNormal
              /\ last.phaseOut = TortoisePhaseWorking

\* A pass in BackToNormal set the phase to Working.
C9_Witness ==
    /\ Passed
    /\ last.phaseIn = TortoisePhaseBackToNormal
    /\ phase = TortoisePhaseWorking

----------------------------------------------------------------------------
(* C10 *)

\* C10: a successful pass in Working, or in any phase other than Emergency
\* and BackToNormal, persists maxReplicas = the max recommendation and
\* minReplicas = the min recommendation looked up for now, whatever
\* minReplicas was before; and in every phase the persisted maxReplicas is
\* the max recommendation looked up for now, whatever maxReplicas was before.
C10_UndampedOutsideRecovery ==
    /\ Passed => ~MaxLookup.err /\ hpa.MaxReplicas = MaxLookup.value
    /\ (Passed /\ last.phaseIn \notin {TortoisePhaseEmergency, TortoisePhaseBackToNormal})
          => ~MinLookup.err /\ hpa.MinReplicas = MinLookup.value

\* A pass in a phase that is none of the three named ones lowered both
\* bounds to the recommendations.
C10_Witness ==
    /\ Passed
    /\ last.phaseIn = TortoisePhaseInitializing
    /\ last.before.MinReplicas > hpa.MinReplicas
    /\ last.before.MaxReplicas > hpa.MaxReplicas

----------------------------------------------------------------------------
(* C11 *)

\* The time t lies in the slot r: the weekdays agree and the hour is one of
\* From, ..., To - 1.
InSlot(r, t) == r.WeekDay = t.weekday /\ t.hour \in r.From..(r.To - 1)

\* C11: getReplicasRecommendation returns the value of the first slot, in the
\* order of the list, whose weekday is now's and whose range [From, To)
\* holds now's hour (an earlier slot wins over a later one that overlaps it,
\* and the hour To is outside the range), and returns the error exactly when
\* no slot matches.
C11_FirstMatchingSlot ==
    (last.op = "Lookup") =>
        LET slots == recommendations.MaxReplicas
            hits  == {i \in DOMAIN slots : InSlot(slots[i], last.now)}
        IN  /\ (last.err = "max") <=> (hits = {})
            /\ last.err \in {"max", "none"}
            /\ hits # {} =>
                 \E i \in hits : (\A j \in hits : i <= j) /\ last.value = slots[i].Value

\* Slots [{Mon,0,12,3},{Mon,12,24,5}] at Monday 14:00: 5.
C11_Witness ==
    /\ last.op = "Lookup"
    /\ recommendations.MaxReplicas =
          <<ReplicasRecommendation(Monday, 0, 12, 3), ReplicasRecommendation(Monday, 12, 24, 5)>>
    /\ last.now = Time(Monday, 14)
    /\ last.err = "none"
    /\ last.value = 5

----------------------------------------------------------------------------
(* C12 *)

\* C12: when Create answers that an HPA of the name exists already,
\* CreateHPAOnTortoise returns no HPA and no error, and the HPA in the store
\* is the one that was there; when Create answers with another error, the
\* call returns an error (and the store is as it was).
C12_ExistingHPAIsKept ==
    (last.op = "Create") =>
        /\ (last.storeErr = "AlreadyExists") =>
              /\ last.existed
              /\ ~last.returned
              /\ last.err = "none"
              /\ exists
              /\ hpa = last.before
        /\ (last.storeErr = "Forbidden") =>
              /\ last.err = "create"
              /\ exists = last.existed
              /\ hpa = last.before
        /\ (last.existed /\ last.err = "none") => last.storeErr = "AlreadyExists"

\* A call on a store that holds the user's HPA, which is not the one built.
C12_Witness ==
    /\ last.op = "Create"
    /\ last.storeErr = "AlreadyExists"
    /\ last.before \in UserHPAs
    /\ last.after # last.before
    /\ last.replicas = 7
    /\ Len(last.after.Metrics) = 2

----------------------------------------------------------------------------
(* C13 *)

\* What the rewrite for (container c, resource k, target v) is to make of
\* the entry m of the HPA h: a container resource metric of c and k with a
\* utilization target, and an external metric named by k's prefix and c, get
\* the target v; any other entry stays.
Rewritten(m, h, c, k, v) ==
    IF /\ m.Type = ContainerResourceMetricSourceType
       /\ m.ContainerResource.present
       /\ m.ContainerResource.Container = c
       /\ m.ContainerResource.Name = k
       /\ m.ContainerResource.AverageUtilization # NilValue
    THEN [m EXCEPT !.ContainerResource.AverageUtilization = v]
    ELSE IF /\ m.Type = ExternalMetricSourceType
            /\ m.External.present
            /\ m.External.MetricName = h.Annotations[PrefixAnnotation(k)] \o <<c>>
    THEN [m EXCEPT !.External.Value = v]
    ELSE m

\* A rewrite for cpu or memory of an HPA that carries the prefix of that
\* resource.
RewroteWithPrefix ==
    /\ last.op = "Rewrite"
    /\ last.k \in {ResourceCPU, ResourceMemory}
    /\ PrefixAnnotation(last.k) \in DOMAIN last.before.Annotations

\* C13: updateHPATargetValue for (container, resource, target) sets the
\* target of every container resource metric of that container and resource
\* whose target is a utilization, and of every external metric named by the
\* resource's prefix and the container, to the given target, leaves every
\* other entry as it was (so nothing changes when no entry matches), and
\* returns no error.
C13_RewritesEveryMatch ==
    RewroteWithPrefix =>
        /\ last.err = "none"
        /\ DOMAIN last.after.Metrics = DOMAIN last.before.Metrics
        /\ \A i \in DOMAIN last.before.Metrics :
              last.after.Metrics[i] =
                  Rewritten(last.before.Metrics[i], last.before,
                            last.containerName, last.k, last.targetValue)

\* The same, of the calls that did not panic.
C13_RewritesEveryMatchUnlessPanic ==
    (RewroteWithPrefix /\ last.err # "panic") =>
        /\ last.err = "none"
        /\ DOMAIN last.after.Metrics = DOMAIN last.before.Metrics
        /\ \A i \in DOMAIN last.before.Metrics :
              last.after.Metrics[i] =
                  Rewritten(last.before.Metrics[i], last.before,
                            last.containerName, last.k, last.targetValue)

----------------------------------------------------------------------------
(* C14 *)

\* C14: updateHPATargetValue called a second time with the same container,
\* resource and target, on the HPA the first call left, leaves that HPA as it
\* is and ends as the first call ended.
C14_RewriteTwiceIsRewriteOnce ==
    Rewrote =>
        LET again == updateHPATargetValue(last.after, last.containerName, last.k,
                                          last.targetValue)
        IN  /\ again.hpa = last.after
            /\ again.err = (last.err = "rewrite")
            /\ again.panic = (last.err = "panic")
            /\ (last.repeat => last.before = last.after)

\* The second of two equal calls in a row that had a container resource
\* metric and an external metric to set.
C14_Witness ==
    /\ Rewrote
    /\ last.repeat
    /\ last.err = "none"
    /\ \E i, j \in DOMAIN last.after.Metrics :
          /\ ContainerResourceHit(last.after.Metrics[i], last.containerName, last.k)
          /\ ExternalHit(last.after.Metrics[j],
                         externalMetricNameFromAnnotation(last.after, last.containerName,
                                                          last.k).name)
          /\ last.after.Metrics[i].ContainerResource.AverageUtilization = last.targetValue
          /\ last.after.Metrics[j].External.Value = last.targetValue

----------------------------------------------------------------------------
(* C15 *)

\* C15: a successful pass that is given the phase BackToNormal and leaves it
\* (the ideal min is not above the reduced min) stores a MinReplicas that is
\* at most the MinReplicas the pass read, so the passes of a recovery never
\* raise it.
C15_DecayNeverRaisesMin ==
    (Passed /\ last.phaseIn = TortoisePhaseBackToNormal
            /\ last.phaseOut = TortoisePhaseBackToNormal) =>
        /\ hpa.MinReplicas <= last.before.MinReplicas
        /\ hpa = last.after

\* A pass of a recovery that lowered MinReplicas and stayed in BackToNormal.
C15_Witness ==
    /\ Passed
    /\ last.phaseIn = TortoisePhaseBackToNormal
    /\ phase = TortoisePhaseBackToNormal
    /\ hpa.MinReplicas < last.before.MinReplicas
    /\ last.before.MinReplicas = MaxReplicas

----------------------------------------------------------------------------
(* C16 *)

\* A call of CreateHPAOnTortoise that built all its metrics.
Built == last.op = "Create" /\ last.err # "name"

\* The (container, resource) pairs the resource policy of the call lists.
ListedPairs ==
    {pr \in Containers \X {ResourceCPU, ResourceMemory, ResourceEphemeralStorage} :
        \E i \in DOMAIN last.resourcePolicy :
            /\ last.resourcePolicy[i].ContainerName = pr[1]
            /\ pr[2] \in DOMAIN last.resourcePolicy[i].AutoscalingPolicy}

\* The autoscaling type the policy gives the listed pair pr.
ModeOf(pr) ==
    LET i == CHOOSE i \in DOMAIN last.resourcePolicy :
                 last.resourcePolicy[i].ContainerName = pr[1]
    IN  last.resourcePolicy[i].AutoscalingPolicy[pr[2]]

\* The metric the built HPA is to hold for the listed pair pr.
MetricFor(pr) ==
    ExternalMetric((IF pr[2] = ResourceCPU THEN CPUPrefix ELSE MemoryPrefix) \o <<pr[1]>>,
                   IF ModeOf(pr) = AutoscalingTypeHorizontal THEN 50 ELSE 90)

\* C16: the HPA CreateHPAOnTortoise builds holds, for every (container,
\* resource) pair its resource policy lists, exactly one metric, an external
\* metric named by the resource's prefix and the container, with the target
\* 50 when the pair's type is Horizontal and 90 otherwise, and holds no other
\* metric.
C16_OneExternalMetricPerListedPair ==
    Built =>
        /\ Len(last.after.Metrics) = Cardinality(ListedPairs)
        /\ \A pr \in ListedPairs :
              Cardinality({j \in DOMAIN last.after.Metrics :
                              last.after.Metrics[j] = MetricFor(pr)}) = 1
        /\ \A j \in DOMAIN last.after.Metrics :
              \E pr \in ListedPairs : last.after.Metrics[j] = MetricFor(pr)

\* Two containers, one with a Horizontal cpu, one with a Vertical cpu and a
\* Horizontal memory: three metrics, the targets 50, 90 and 50.
C16_Witness ==
    /\ Built
    /\ last.returned
    /\ last.resourcePolicy =
          <<ContainerResourcePolicy("api", (ResourceCPU :> AutoscalingTypeHorizontal)),
            ContainerResourcePolicy("worker",
                (ResourceCPU :> AutoscalingTypeVertical)
                   @@ (ResourceMemory :> AutoscalingTypeHorizontal))>>
    /\ Len(hpa.Metrics) = 3
    /\ hpa.Metrics[1] = ExternalMetric(CPUPrefix \o <<"api">>, 50)
    /\ \E j \in 2..3 : hpa.Metrics[j] = ExternalMetric(CPUPrefix \o <<"worker">>, 90)
    /\ \E j \in 2..3 : hpa.Metrics[j] = ExternalMetric(MemoryPrefix \o <<"worker">>, 50)

----------------------------------------------------------------------------
(* C17 *)

\* The HPA h has the replica bounds the spec gives for r replicas:
\* MinReplicas is the half of r rounded up (r is its double, or one less),
\* MaxReplicas is the double of r, and r lies between them.  Written with
\* differences, which stay within 32 bits where the double does not.
Bracket(h, r) ==
    /\ h.MinReplicas >= 0
    /\ r - h.MinReplicas \in {h.MinReplicas, h.MinReplicas - 1}
    /\ h.MinReplicas <= r
    /\ r <= h.MaxReplicas
    /\ h.MaxReplicas - r = r

\* C17: for every count of replicas from 0 to the largest int32, the HPA
\* CreateHPAOnTortoise builds has MinReplicas = ceil(replicas / 2) and
\* MaxReplicas = replicas * 2, and so MinReplicas <= replicas <= MaxReplicas.
C17_BootstrapBracket ==
    (last.op = "Create") => Bracket(last.after, last.replicas)

\* The same, of the counts whose double is an int32.
C17_BootstrapBracketOfSmallCounts ==
    (last.op = "Create" /\ last.replicas <= MaxInt32 \div 2) =>
        Bracket(last.after, last.replicas)

----------------------------------------------------------------------------
(* C18 *)

\* The metric m lacks its body: a container resource metric without
\* ContainerResource, an external metric without External.
LacksBody(m) ==
    \/ m.Type = ContainerResourceMetricSourceType /\ ~m.ContainerResource.present
    \/ m.Type = ExternalMetricSourceType /\ ~m.External.present

\* The metric m of the HPA h is the external metric of the rewrite just made
\* and has no Value.
LacksValue(m, h) ==
    /\ m.Type = ExternalMetricSourceType
    /\ m.External.present
    /\ m.External.MetricName = h.Annotations[PrefixAnnotation(last.k)] \o <<last.containerName>>
    /\ m.External.Value = NilValue

\* C18: updateHPATargetValue on a metric list in which an entry lacks its
\* body, or a matching external metric lacks its Value, does not panic and
\* returns no error; it leaves that entry as it is and rewrites the others
\* as it would without it.
C18_AbsentSubstructureIsSkipped ==
    (RewroteWithPrefix
       /\ \E i \in DOMAIN last.before.Metrics :
             \/ LacksBody(last.before.Metrics[i])
             \/ LacksValue(last.before.Metrics[i], last.before)) =>
        /\ last.err = "none"
        /\ DOMAIN last.after.Metrics = DOMAIN last.before.Metrics
        /\ \A i \in DOMAIN last.before.Metrics :
              last.after.Metrics[i] =
                  IF \/ LacksBody(last.before.Metrics[i])
                     \/ LacksValue(last.before.Metrics[i], last.before)
                  THEN last.before.Metrics[i]
                  ELSE Rewritten(last.before.Metrics[i], last.before,
                                 last.containerName, last.k, last.targetValue)

\* The same, of the entries that lack their body only.
C18_AbsentBodyIsSkipped ==
    (RewroteWithPrefix
       /\ (\E i \in DOMAIN last.before.Metrics : LacksBody(last.before.Metrics[i]))
       /\ \A i \in DOMAIN last.before.Metrics :
             ~LacksValue(last.before.Metrics[i], last.before)) =>
        /\ last.err = "none"
        /\ DOMAIN last.after.Metrics = DOMAIN last.before.Metrics
        /\ \A i \in DOMAIN last.before.Metrics :
              last.after.Metrics[i] =
                  IF LacksBody(last.before.Metrics[i])
                  THEN last.before.Metrics[i]
                  ELSE Rewritten(last.before.Metrics[i], last.before,
                                 last.containerName, last.k, last.targetValue)

----------------------------------------------------------------------------
(* C19 *)

\* In every window, the hours of Monday and Tuesday, in which both lookups
\* find a slot the min recommendation is at most the max recommendation.
RecommendationsOrdered ==
    \A d \in {Monday, Tuesday}, hr \in 0..23 :
        LET min == getReplicasRecommendation(recommendations.MinReplicas, Time(d, hr))
            max == getReplicasRecommendation(recommendations.MaxReplicas, Time(d, hr))
        IN  (~min.err /\ ~max.err) => min.value <= max.value

\* C19: when every window's min recommendation is at most its max
\* recommendation, the HPA a successful pass stored has MinReplicas <=
\* MaxReplicas, whatever passes, changes of phase and changes of the time
\* went before.
C19_MinNeverAboveMax ==
    (Passed /\ RecommendationsOrdered) => hpa.MinReplicas <= hpa.MaxReplicas

\* The same, of the passes that were not given the phase BackToNormal.
C19_MinNeverAboveMaxOutsideRecovery ==
    (Passed /\ RecommendationsOrdered /\ last.phaseIn # TortoisePhaseBackToNormal) =>
        hpa.MinReplicas <= hpa.MaxReplicas

----------------------------------------------------------------------------
(* C20 *)

\* C20: a call of UpdateHPAFromTortoiseRecommendation that returns an error
\* (of Get, of the rewrite, of a lookup or of Update) returns the tortoise
\* with the phase it was given.
C20_ErrorKeepsPhase ==
    (last.op = "Update" /\ last.err \in {"get", "rewrite", "max", "min", "update"}) =>
        /\ last.phaseOut = last.phaseIn
        /\ phase = last.phaseIn

\* The same, of every error but that of Update.
C20_ErrorBeforeUpdateKeepsPhase ==
    (last.op = "Update" /\ last.err \in {"get", "rewrite", "max", "min"}) =>
        /\ last.phaseOut = last.phaseIn
        /\ phase = last.phaseIn

====
